---- MODULE Spec2Model ----
(***************************************************************************)
(* Model of app.py: the order-picking PDF -> spreadsheet pipeline.         *)
(*                                                                         *)
(* Strings are sequences of one-character strings, so that the regular     *)
(* expressions, str.strip, str.replace, str.rsplit and str.splitlines are  *)
(* computed character by character, as the code computes them.  Python's   *)
(* 0-based indices are 1-based here.  The alphabet of the model is ASCII;  *)
(* its whitespace characters are space, tab and newline, and newline is    *)
(* its only line boundary.                                                 *)
(***************************************************************************)
EXTENDS Integers, Sequences, FiniteSets, TLC

VARIABLES
    text,            \* parse_items / extract_order_id: the document text
    fallback_name,   \* extract_order_id: the file name
    order_id,        \* extract_order_id: the returned identifier
    lines,           \* parse_items: text.splitlines()
    i,               \* parse_items: index of the line the outer loop is at
    items,           \* parse_items: the list being built; items_to_dataframe: its input
    df,              \* items_to_dataframe: the returned table (rows in order)
    uploaded_files,  \* the batch, in upload order
    k,               \* index of the next uploaded file the batch loop takes
    outputs,         \* Dict[str, bytes]: entries in insertion order
    archive,         \* the entries written to the zip file, in writing order
    pc               \* position of the running function or script

vars == <<text, fallback_name, order_id, lines, i, items, df,
          uploaded_files, k, outputs, archive, pc>>

-----------------------------------------------------------------------------
(* Characters *)

DigitChars == <<"0", "1", "2", "3", "4", "5", "6", "7", "8", "9">>

UpperChars == <<"A", "B", "C", "D", "E", "F", "G", "H", "I", "J", "K", "L", "M",
                "N", "O", "P", "Q", "R", "S", "T", "U", "V", "W", "X", "Y", "Z">>

LowerChars == <<"a", "b", "c", "d", "e", "f", "g", "h", "i", "j", "k", "l", "m",
                "n", "o", "p", "q", "r", "s", "t", "u", "v", "w", "x", "y", "z">>

Range(f) == {f[x] : x \in DOMAIN f}

Min(S) == CHOOSE x \in S : \A y \in S : x <= y

Max(S) == CHOOSE x \in S : \A y \in S : y <= x

\* \d
IsDigit(c) == c \in Range(DigitChars)

IsLetter(c) == c \in Range(UpperChars) \cup Range(LowerChars)

\* \w
IsWord(c) == IsDigit(c) \/ IsLetter(c) \/ c = "_"

\* \s
IsSpace(c) == c \in {" ", "\t", "\n"}

\* re.IGNORECASE: letters are compared by their lower-case form
Lower(c) ==
    IF c \in Range(UpperChars)
    THEN LowerChars[CHOOSE n \in DOMAIN UpperChars : UpperChars[n] = c]
    ELSE c

\* the character at position p, "" before the start and past the end
At(s, p) == IF p >= 1 /\ p <= Len(s) THEN s[p] ELSE ""

\* a literal w at position p of s, letters in any case
EqNoCase(s, p, w) ==
    /\ p >= 1
    /\ p + Len(w) - 1 <= Len(s)
    /\ \A n \in 1..Len(w) : Lower(s[p + n - 1]) = Lower(w[n])

RECURSIVE SkipSpace(_, _)
\* \s* from position p: the first position at or after p that holds no whitespace
SkipSpace(s, p) == IF IsSpace(At(s, p)) THEN SkipSpace(s, p + 1) ELSE p

RECURSIVE SkipDigits(_, _)
\* \d* from position p: the first position at or after p that holds no digit
SkipDigits(s, p) == IF IsDigit(At(s, p)) THEN SkipDigits(s, p + 1) ELSE p

RECURSIVE ToInt(_)
\* int() of a string of decimal digits
ToInt(ds) ==
    IF ds = <<>> THEN 0
    ELSE ToInt(SubSeq(ds, 1, Len(ds) - 1)) * 10
         + (CHOOSE n \in 0..9 : DigitChars[n + 1] = ds[Len(ds)])

RECURSIVE Join(_, _)
\* sep.join(parts)
Join(parts, sep) ==
    IF parts = <<>> THEN <<>>
    ELSE IF Len(parts) = 1 THEN parts[1]
    ELSE parts[1] \o sep \o Join(Tail(parts), sep)

RECURSIVE splitlines(_)
\* str.splitlines(): the pieces between line boundaries, no piece after a
\* final boundary
splitlines(s) ==
    IF s = <<>> THEN <<>>
    ELSE LET P == {p \in 1..Len(s) : s[p] = "\n"}
         IN  IF P = {} THEN <<s>>
             ELSE <<SubSeq(s, 1, Min(P) - 1)>>
                  \o splitlines(SubSeq(s, Min(P) + 1, Len(s)))

-----------------------------------------------------------------------------
(* Regular expressions of the item parser *)

\* the number of digits of an item code: \d{5}
CodeDigits == 5

\* the look-ahead reaches lines i+1 .. i+3: range(1, 4)
Lookahead == 3

Pcs == <<"p", "c", "s">>

\* ITEM_RE = \b[vV](\d{5})\b matches at position p
ItemAt(s, p) ==
    /\ At(s, p) \in {"v", "V"}
    /\ ~IsWord(At(s, p - 1))
    /\ p + CodeDigits <= Len(s)
    /\ \A n \in 1..CodeDigits : IsDigit(s[p + n])
    /\ ~IsWord(At(s, p + CodeDigits + 1))

\* ITEM_RE.search(s) finds a match
ITEM_RE_search(s) == \E p \in 1..Len(s) : ItemAt(s, p)

RECURSIVE ItemsFrom(_, _)
ItemsFrom(s, p) ==
    IF p > Len(s) THEN <<>>
    ELSE IF ItemAt(s, p)
         THEN <<SubSeq(s, p + 1, p + CodeDigits)>> \o ItemsFrom(s, p + CodeDigits + 1)
         ELSE ItemsFrom(s, p + 1)

\* list(ITEM_RE.finditer(s)): group 1 of every match, left to right
ITEM_RE_finditer(s) == ItemsFrom(s, 1)

\* PCS_INLINE_RE = =\s*(\d+)\s*pcs, IGNORECASE, at position p: group 1, or <<>>
PcsInlineAt(s, p) ==
    LET q == SkipSpace(s, p + 1)
        d == SkipDigits(s, q)
        r == SkipSpace(s, d)
    IN  IF At(s, p) = "=" /\ d > q /\ EqNoCase(s, r, Pcs)
        THEN SubSeq(s, q, d - 1)
        ELSE <<>>

\* PCS_INLINE_RE.search(s): group 1 of the leftmost match, <<>> for None
PCS_INLINE_RE_search(s) ==
    LET P == {p \in 1..Len(s) : PcsInlineAt(s, p) # <<>>}
    IN  IF P = {} THEN <<>> ELSE PcsInlineAt(s, Min(P))

\* PCS_ALONE_RE = \b(\d+)\s*pcs\b, IGNORECASE, at position p: group 1, or <<>>
PcsAloneAt(s, p) ==
    LET d == SkipDigits(s, p)
        r == SkipSpace(s, d)
    IN  IF /\ IsDigit(At(s, p))
           /\ ~IsWord(At(s, p - 1))
           /\ EqNoCase(s, r, Pcs)
           /\ ~IsWord(At(s, r + Len(Pcs)))
        THEN SubSeq(s, p, d - 1)
        ELSE <<>>

\* PCS_ALONE_RE.search(s): group 1 of the leftmost match, <<>> for None
PCS_ALONE_RE_search(s) ==
    LET P == {p \in 1..Len(s) : PcsAloneAt(s, p) # <<>>}
    IN  IF P = {} THEN <<>> ELSE PcsAloneAt(s, Min(P))

-----------------------------------------------------------------------------
(* parse_items *)

\* the two patterns tried in the other order
LineQuantity_AloneFirst(la) ==
    IF PCS_ALONE_RE_search(la) # <<>>
    THEN PCS_ALONE_RE_search(la)
    ELSE PCS_INLINE_RE_search(la)

\* m2 = PCS_INLINE_RE.search(la) or PCS_ALONE_RE.search(la): group 1, or <<>>
LineQuantity(la) ==
    IF PCS_INLINE_RE_search(la) # <<>>
    THEN PCS_INLINE_RE_search(la)
    ELSE PCS_ALONE_RE_search(la)

RECURSIVE LookAheadFrom(_, _, _)
\* the loop "for la_i in range(1, 4)" from la_i on, for the code line n:
\* <<qty>> when a quantity is assigned, <<>> when qty stays None
LookAheadFrom(ls, n, la_i) ==
    IF la_i > Lookahead THEN <<>>
    ELSE IF n + la_i > Len(ls) THEN <<>>
    ELSE IF ITEM_RE_search(ls[n + la_i]) THEN <<>>
    ELSE IF LineQuantity(ls[n + la_i]) # <<>>
         THEN <<ToInt(LineQuantity(ls[n + la_i]))>>
         ELSE LookAheadFrom(ls, n, la_i + 1)

RECURSIVE LookAheadPastCodes(_, _, _)
\* the look-ahead with "continue" for "break" on a line that has a code
LookAheadPastCodes(ls, n, la_i) ==
    IF la_i > Lookahead THEN <<>>
    ELSE IF n + la_i > Len(ls) THEN <<>>
    ELSE IF ITEM_RE_search(ls[n + la_i]) THEN LookAheadPastCodes(ls, n, la_i + 1)
    ELSE IF LineQuantity(ls[n + la_i]) # <<>>
         THEN <<ToInt(LineQuantity(ls[n + la_i]))>>
         ELSE LookAheadPastCodes(ls, n, la_i + 1)

LookAhead_NoStop(ls, n) == LookAheadPastCodes(ls, n, 1)

LookAhead(ls, n) == LookAheadFrom(ls, n, 1)

\* the inline quantity given to the first code of the line only
LineItems_FirstCodeOnly(ls, n) ==
    LET line == ls[n]
        matches == ITEM_RE_finditer(line)
        inline == PCS_INLINE_RE_search(line)
        qty(m) == IF inline # <<>> /\ m = 1 THEN <<ToInt(inline)>> ELSE LookAhead(ls, n)
        kept == {m \in 1..Len(matches) : qty(m) # <<>>}
        nth(x) == CHOOSE m \in kept : Cardinality({y \in kept : y < m}) = x - 1
    IN  [x \in 1..Cardinality(kept) |->
            << <<"V">> \o matches[nth(x)], qty(nth(x))[1] >>]

\* the pairs one iteration of "for i, line in enumerate(lines)" appends:
\* for every match m, qty = qty_inline, else the look-ahead; appended when
\* qty is not None
LineItems(ls, n) ==
    LET line == ls[n]
        matches == ITEM_RE_finditer(line)
        inline == PCS_INLINE_RE_search(line)
        qty_inline == IF inline # <<>> THEN <<ToInt(inline)>> ELSE <<>>
        qty == IF qty_inline # <<>> THEN qty_inline ELSE LookAhead(ls, n)
    IN  IF matches = <<>> \/ qty = <<>> THEN <<>>
        ELSE [m \in 1..Len(matches) |-> << <<"V">> \o matches[m], qty[1] >>]

RECURSIVE ParseFrom(_, _)
ParseFrom(ls, n) ==
    IF n > Len(ls) THEN <<>> ELSE LineItems(ls, n) \o ParseFrom(ls, n + 1)

\* parse_items(text), as a function of the text
parse_items(t) == ParseFrom(splitlines(t), 1)

-----------------------------------------------------------------------------
(* safe_name, extract_order_id *)

\* the character class without the underscore
AllowedChar_NoUnderscore(c) == IsDigit(c) \/ IsLetter(c) \/ c \in {"-", " "}

\* the characters re.sub keeps: [0-9A-Za-z_\- ]
AllowedChar(c) == IsDigit(c) \/ IsLetter(c) \/ c \in {"_", "-", " "}

\* re.sub(r"[^0-9A-Za-z_\- ]+", "", raw)
re_sub(raw) == SelectSeq(raw, AllowedChar)

\* str.strip()
strip(s) ==
    LET P == {p \in 1..Len(s) : ~IsSpace(s[p])}
    IN  IF P = {} THEN <<>> ELSE SubSeq(s, Min(P), Max(P))

\* str.replace(" ", "_")
replace(s) == [p \in 1..Len(s) |-> IF s[p] = " " THEN "_" ELSE s[p]]

\* the literal of "... or 'ismeretlen'"
Placeholder == <<"i", "s", "m", "e", "r", "e", "t", "l", "e", "n">>

\* safe_name without "or 'ismeretlen'"
safe_name_NoPlaceholder(raw) == replace(strip(re_sub(raw)))

safe_name(raw) ==
    LET s == strip(re_sub(raw))
    IN  IF replace(s) # <<>> THEN replace(s) ELSE Placeholder

Order == <<"O", "r", "d", "e", "r">>

Picking == <<"p", "i", "c", "k", "i", "n", "g", ":">>

\* Order\s+picking: matches at position p: the position after the colon, else 0
PhraseAt(s, p) ==
    LET q == SkipSpace(s, p + Len(Order))
    IN  IF EqNoCase(s, p, Order) /\ q > p + Len(Order) /\ EqNoCase(s, q, Picking)
        THEN q + Len(Picking)
        ELSE 0

RECURSIVE SkipField(_, _)
\* [^\n|]* from position p: the first position at or after p that holds a
\* newline or a pipe, or the position past the end
SkipField(s, p) ==
    IF p <= Len(s) /\ s[p] \notin {"\n", "|"} THEN SkipField(s, p + 1) ELSE p

\* ORDER_ID_RE = Order\s+picking:\s*([^\n|]+), IGNORECASE, at position p:
\* group 1, or <<>>.  \s* is greedy and gives whitespace back, one character
\* at a time, until [^\n|]+ finds a character to take.
OrderIdAt(s, p) ==
    LET e == PhraseAt(s, p)
        j == SkipSpace(s, e)
        K == {n \in e..j : n <= Len(s) /\ s[n] \notin {"\n", "|"}}
    IN  IF e = 0 \/ K = {} THEN <<>>
        ELSE SubSeq(s, Max(K), SkipField(s, Max(K)) - 1)

\* the rightmost match for the leftmost
ORDER_ID_RE_search_Last(s) ==
    LET P == {p \in 1..Len(s) : OrderIdAt(s, p) # <<>>}
    IN  IF P = {} THEN <<>> ELSE OrderIdAt(s, Max(P))

\* ORDER_ID_RE.search(s): group 1 of the leftmost match, <<>> for None
ORDER_ID_RE_search(s) ==
    LET P == {p \in 1..Len(s) : OrderIdAt(s, p) # <<>>}
    IN  IF P = {} THEN <<>> ELSE OrderIdAt(s, Min(P))

\* s.rsplit(sep, 1)[-1]
rsplit_last(s, sep) ==
    LET P == {p \in 1..Len(s) : s[p] = sep}
    IN  IF P = {} THEN s ELSE SubSeq(s, Max(P) + 1, Len(s))

\* s.rsplit(sep, 1)[0]
rsplit_first(s, sep) ==
    LET P == {p \in 1..Len(s) : s[p] = sep}
    IN  IF P = {} THEN s ELSE SubSeq(s, 1, Max(P) - 1)

extract_order_id(t, name) ==
    LET m == ORDER_ID_RE_search(t)
        base == rsplit_first(rsplit_last(name, "/"), ".")
    IN  IF m # <<>> THEN safe_name(m) ELSE safe_name(base)

-----------------------------------------------------------------------------
(* items_to_dataframe *)

\* the characters of codes and identifiers in code-point order
CodePointOrder == <<"-">> \o DigitChars \o UpperChars \o <<"_">> \o LowerChars

Ord(c) == CHOOSE n \in DOMAIN CodePointOrder : CodePointOrder[n] = c

\* a < b for Python strings
LessStr(a, b) ==
    \E n \in 1..Len(b) :
        /\ n <= Len(a) + 1
        /\ \A m \in 1..n - 1 : a[m] = b[m]
        /\ n > Len(a) \/ Ord(a[n]) < Ord(b[n])

RECURSIVE GroupLast(_, _)
\* the last quantity of a group in place of the group's sum
GroupLast(its, code) ==
    IF its = <<>> THEN 0
    ELSE IF its[Len(its)][1] = code THEN its[Len(its)][2]
    ELSE GroupLast(SubSeq(its, 1, Len(its) - 1), code)

RECURSIVE GroupSum(_, _)
\* ["Mennyiség"].sum() of the group of one code
GroupSum(its, code) ==
    IF its = <<>> THEN 0
    ELSE (IF Head(its)[1] = code THEN Head(its)[2] ELSE 0) + GroupSum(Tail(its), code)

RECURSIVE SortRows(_)
\* rows in ascending order of their code
SortRows(rows) ==
    IF rows = {} THEN <<>>
    ELSE LET first == CHOOSE r \in rows :
                          \A o \in rows : o[1] = r[1] \/ LessStr(r[1], o[1])
         IN  <<first>> \o SortRows(rows \ {first})

\* df.groupby("Cikkszám", as_index=False)["Mennyiség"].sum(): one row per
\* code, keys sorted
groupby_sum(its) ==
    SortRows({<<c, GroupSum(its, c)>> : c \in {its[n][1] : n \in DOMAIN its}})

\* df.sort_values("Cikkszám").reset_index(drop=True)
sort_values(rows) == SortRows(Range(rows))

items_to_dataframe(its) ==
    IF its = <<>> THEN <<>> ELSE sort_values(groupby_sum(its))

-----------------------------------------------------------------------------
(* pdf_to_text, the batch loop and the archive *)

\* pdf_to_text: the pages' texts joined by newlines
pdf_to_text(pages) == Join(pages, <<"\n">>)

\* f"Order_picking_{order_id}.xlsx"
xlsx_name(id) ==
    <<"O", "r", "d", "e", "r", "_", "p", "i", "c", "k", "i", "n", "g", "_">> \o id \o <<".", "x", "l", "s", "x">>

\* d.setdefault(key, value): an existing entry keeps its value
DictSetDefault(d, key, value) ==
    IF \E e \in DOMAIN d : d[e][1] = key THEN d ELSE Append(d, <<key, value>>)

\* d[key] = value on a dict: an existing key keeps its place and takes the
\* new value, a new key goes last
DictSet(d, key, value) ==
    IF \E e \in DOMAIN d : d[e][1] = key
    THEN [e \in DOMAIN d |-> IF d[e][1] = key THEN <<key, value>> ELSE d[e]]
    ELSE Append(d, <<key, value>>)

-----------------------------------------------------------------------------
(* parse_items, line by line *)

\* the longest text the item parser is given, in lines
MaxLines == 5

\* lines of a pick list: a code alone, a lower-case code alone, two codes
\* with an inline quantity, a quantity alone, a line with both kinds of
\* quantity, and a line that holds neither a code nor a quantity
SampleLines ==
    { <<"V", "1", "2", "3", "4", "5">>,
      <<"v", "6", "7", "8", "9", "0">>,
      <<"V", "1", "2", "3", "4", "5", " ", "v", "6", "7", "8", "9", "0", " ", "=", " ", "2", " ", "p", "c", "s">>,
      <<"5", " ", "p", "c", "s">>,
      <<"3", "p", "c", "s", " ", "=", "0", "7", " ", "P", "C", "S">>,
      <<"X", "V", "1", "2", "3", "4", "5", " ", "9", "p", "c", "s", "x">> }

SeqsUpTo(S, n) == UNION {[1..m -> S] : m \in 0..n}

ParseTexts == {Join(ls, <<"\n">>) : ls \in SeqsUpTo(SampleLines, MaxLines)}

InitParse ==
    /\ text \in ParseTexts
    /\ fallback_name = <<>>
    /\ order_id = <<>>
    /\ lines = <<>>
    /\ i = 1
    /\ items = <<>>
    /\ df = <<>>
    /\ uploaded_files = <<>>
    /\ k = 1
    /\ outputs = <<>>
    /\ archive = <<>>
    /\ pc = "parse_items"

\* lines = text.splitlines(); items = []
Split ==
    /\ pc = "parse_items"
    /\ lines' = splitlines(text)
    /\ items' = <<>>
    /\ i' = 1
    /\ pc' = "scan"
    /\ UNCHANGED <<text, fallback_name, order_id, df, uploaded_files, k, outputs, archive>>

\* one iteration of "for i, line in enumerate(lines)"
ScanLine ==
    /\ pc = "scan"
    /\ i <= Len(lines)
    /\ items' = items \o LineItems(lines, i)
    /\ i' = i + 1
    /\ UNCHANGED <<text, fallback_name, order_id, lines, df, uploaded_files, k,
                   outputs, archive, pc>>

\* return items
ReturnItems ==
    /\ pc = "scan"
    /\ i > Len(lines)
    /\ pc' = "parsed"
    /\ UNCHANGED <<text, fallback_name, order_id, lines, i, items, df,
                   uploaded_files, k, outputs, archive>>

NextParse == Split \/ ScanLine \/ ReturnItems

SpecParse == InitParse /\ [][NextParse]_vars

-----------------------------------------------------------------------------
(* Properties of parse_items *)

\* the outer loop is about to take line i
Scanning == pc = "scan" /\ i <= Len(lines)

\* the item codes on a line, left to right, read off the match positions
CodesOn(line) ==
    LET P == {p \in 1..Len(line) : ItemAt(line, p)}
        nth(m) == CHOOSE p \in P : Cardinality({q \in P : q < p}) = m - 1
    IN  [m \in 1..Cardinality(P) |->
            <<"V">> \o SubSeq(line, nth(m) + 1, nth(m) + CodeDigits)]

HasInline(line) == PCS_INLINE_RE_search(line) # <<>>

\* a look-ahead line carries a quantity
HasQuantity(line) == HasInline(line) \/ PCS_ALONE_RE_search(line) # <<>>

\* the quantity a look-ahead line carries: "= N pcs" before "N pcs"
QuantityOn(line) ==
    IF HasInline(line)
    THEN ToInt(PCS_INLINE_RE_search(line))
    ELSE ToInt(PCS_ALONE_RE_search(line))

Pairs(codes, q) == [m \in 1..Len(codes) |-> <<codes[m], q>>]

\* the lines after line i that contain an item code
CodeLinesAfter == {j \in i + 1..Len(lines) : ITEM_RE_search(lines[j])}

\* the lines of the look-ahead window of line i
Window == {j \in i + 1..i + Lookahead : j <= Len(lines)}

\* C1: when the loop takes a line that has a code and no inline quantity, and
\* some later line contains an item code, then with b the first such line:
\* every pair the iteration appends has the quantity of a line strictly
\* between i and b, and nothing is appended when no line strictly between
\* them carries a quantity.
C1_LookAheadStopsAtNextCode ==
    [][ (/\ Scanning
         /\ ITEM_RE_search(lines[i])
         /\ ~HasInline(lines[i])
         /\ CodeLinesAfter # {})
        => LET b == Min(CodeLinesAfter)
               Q == {j \in i + 1..b - 1 : HasQuantity(lines[j])}
           IN  /\ Q = {} => items' = items
               /\ \A n \in Len(items) + 1..Len(items') :
                     \E j \in Q : items'[n][2] = QuantityOn(lines[j])
               /\ SubSeq(items', 1, Len(items)) = items ]_vars

\* C1 witness: 'V12345', 'v67890', '5 pcs' has been parsed and only
\* (V67890, 5) is in the output.
C1_Witness ==
    /\ pc = "parsed"
    /\ lines = << <<"V", "1", "2", "3", "4", "5">>, <<"v", "6", "7", "8", "9", "0">>, <<"5", " ", "p", "c", "s">> >>
    /\ items = << <<<<"V", "6", "7", "8", "9", "0">>, 5>> >>

\* C2: when the loop takes a line that has a code and no inline quantity, and
\* none of the next 3 lines contains an item code, the iteration appends
\* every code of the line with the quantity of the earliest of the next 3
\* lines that carries one ("= N pcs" before "N pcs" on that line), and
\* appends nothing when none of those lines carries a quantity.
C2_EarliestQuantityWithinThreeLines ==
    [][ (/\ Scanning
         /\ ITEM_RE_search(lines[i])
         /\ ~HasInline(lines[i])
         /\ \A j \in Window : ~ITEM_RE_search(lines[j]))
        => LET Q == {j \in Window : HasQuantity(lines[j])}
           IN  items' = items \o
                   (IF Q = {} THEN <<>>
                    ELSE Pairs(CodesOn(lines[i]), QuantityOn(lines[Min(Q)]))) ]_vars

\* C2 witness: a code, a line without quantity, a line with both kinds of
\* quantity, then another quantity: the code got the "= N pcs" quantity of
\* the third line.
C2_Witness ==
    /\ pc = "parsed"
    /\ lines = << <<"V", "1", "2", "3", "4", "5">>, <<"X", "V", "1", "2", "3", "4", "5", " ", "9", "p", "c", "s", "x">>, <<"3", "p", "c", "s", " ", "=", "0", "7", " ", "P", "C", "S">>, <<"5", " ", "p", "c", "s">> >>
    /\ items = << <<<<"V", "1", "2", "3", "4", "5">>, 7>> >>

\* C3: when the loop takes a line that has codes and an inline "= N pcs"
\* quantity, the iteration appends every code occurrence of the line, left to
\* right, each with N, whatever the following lines are.
C3_InlineQuantityForEveryCode ==
    [][ (/\ Scanning
         /\ ITEM_RE_search(lines[i])
         /\ HasInline(lines[i]))
        => items' = items \o Pairs(CodesOn(lines[i]),
                                   ToInt(PCS_INLINE_RE_search(lines[i]))) ]_vars

\* C3 witness: a line with two codes and "= 2 pcs", followed by a quantity
\* line, has been parsed: both codes have quantity 2, in line order.
C3_Witness ==
    /\ pc = "parsed"
    /\ lines = << <<"V", "1", "2", "3", "4", "5", " ", "v", "6", "7", "8", "9", "0", " ", "=", " ", "2", " ", "p", "c", "s">>, <<"5", " ", "p", "c", "s">> >>
    /\ items = << <<<<"V", "1", "2", "3", "4", "5">>, 2>>, <<<<"V", "6", "7", "8", "9", "0">>, 2>> >>

-----------------------------------------------------------------------------
(* extract_order_id and safe_name on their own *)

\* the longest document text the resolver is given, in pieces
MaxParts == 3

\* pieces of a document header: the phrase alone, the phrase with an
\* identifier, a pipe and more text, a space, a newline, a pipe, and the
\* phrase in other letter case with a tab and an identifier to sanitise
TextParts ==
    { <<"O", "r", "d", "e", "r", " ", "p", "i", "c", "k", "i", "n", "g", ":">>,
      <<"O", "r", "d", "e", "r", " ", "p", "i", "c", "k", "i", "n", "g", ":", " ", "A", "B", "C", "-", "1", "2", "3", " ", "|", " ", "e", "x", "t", "r", "a">>,
      <<" ">>,
      <<"\n">>,
      <<"|">>,
      <<"o", "R", "D", "E", "R", "\t", "P", "I", "C", "K", "I", "N", "G", ":", "a", " ", "b", "#", "_", "1">> }

Concat(parts) == Join(parts, <<>>)

IdTexts == {Concat(ps) : ps \in SeqsUpTo(TextParts, MaxParts)}

FileNames ==
    { <<"d", "i", "r", "/", "a", " ", "b", ".", "p", "d", "f">>,
      <<".", "p", "d", "f">>,
      <<"x", ".", "y", "/", "z">>,
      <<"a", "-", "1", ".", "b", ".", "p", "d", "f">> }

InitId ==
    /\ text \in IdTexts
    /\ fallback_name \in FileNames
    /\ order_id = <<>>
    /\ lines = <<>>
    /\ i = 1
    /\ items = <<>>
    /\ df = <<>>
    /\ uploaded_files = <<>>
    /\ k = 1
    /\ outputs = <<>>
    /\ archive = <<>>
    /\ pc = "extract_order_id"

\* order_id = extract_order_id(text, file.name)
ResolveOrderId ==
    /\ pc = "extract_order_id"
    /\ order_id' = extract_order_id(text, fallback_name)
    /\ pc' = "resolved"
    /\ UNCHANGED <<text, fallback_name, lines, i, items, df, uploaded_files, k,
                   outputs, archive>>

NextId == ResolveOrderId

SpecId == InitId /\ [][NextId]_vars

InitSafeName ==
    /\ text = <<>>
    /\ fallback_name = <<>>
    /\ order_id \in IdTexts \cup FileNames
    /\ lines = <<>>
    /\ i = 1
    /\ items = <<>>
    /\ df = <<>>
    /\ uploaded_files = <<>>
    /\ k = 1
    /\ outputs = <<>>
    /\ archive = <<>>
    /\ pc = "raw"

\* safe_name applied to a raw string, and again to its own result
Sanitize ==
    /\ pc \in {"raw", "sanitized"}
    /\ order_id' = safe_name(order_id)
    /\ pc' = IF pc = "raw" THEN "sanitized" ELSE "sanitized_again"
    /\ UNCHANGED <<text, fallback_name, lines, i, items, df, uploaded_files, k,
                   outputs, archive>>

NextSafeName == Sanitize

SpecSafeName == InitSafeName /\ [][NextSafeName]_vars

-----------------------------------------------------------------------------
(* Properties of extract_order_id and safe_name *)

\* what sanitisation leaves of a raw string, before any placeholder
Sanitised(raw) == replace(strip(re_sub(raw)))

\* the stem of a file name: last path segment, extension dropped
Stem(name) == rsplit_first(rsplit_last(name, "/"), ".")

\* C6: the identifier returned is never empty; it is the placeholder whenever
\* sanitisation of the captured group (phrase matched) or of the file name's
\* stem (no match) leaves nothing; and when the phrase matched, the
\* identifier is the same for every file name.
C6_OrderIdNeverEmpty ==
    pc = "resolved" =>
        /\ order_id # <<>>
        /\ LET m == ORDER_ID_RE_search(text)
           IN  /\ (m # <<>> /\ Sanitised(m) = <<>>) => order_id = Placeholder
               /\ (m = <<>> /\ Sanitised(Stem(fallback_name)) = <<>>)
                      => order_id = Placeholder
               /\ m # <<>> =>
                      \A n \in FileNames : extract_order_id(text, n) = order_id

\* C6 witness: the phrase is followed by a space and a pipe, so the captured
\* group sanitises to nothing: the placeholder was returned although the file
\* name has a usable stem.
C6_Witness ==
    /\ pc = "resolved"
    /\ text = <<"O", "r", "d", "e", "r", " ", "p", "i", "c", "k", "i", "n", "g", ":">> \o <<" ", "|">>
    /\ fallback_name = <<"d", "i", "r", "/", "a", " ", "b", ".", "p", "d", "f">>
    /\ order_id = Placeholder

PhraseText == <<"O", "r", "d", "e", "r", " ", "p", "i", "c", "k", "i", "n", "g", ":">>

ExampleText == <<"O", "r", "d", "e", "r", " ", "p", "i", "c", "k", "i", "n", "g", ":", " ", "A", "B", "C", "-", "1", "2", "3", " ", "|", " ", "e", "x", "t", "r", "a">>

ExampleId == <<"A", "B", "C", "-", "1", "2", "3">>

\* the positions where the phrase, with one space and in any letter case, starts
PhrasePositions(t) == {p \in 1..Len(t) : EqNoCase(t, p, PhraseText)}

\* the characters that follow the phrase starting at p, up to the next newline or pipe
FieldAfter(t, p) ==
    SubSeq(t, p + Len(PhraseText), SkipField(t, p + Len(PhraseText)) - 1)

\* the string w stands at position p of t, letter for letter
StartsAt(t, p, w) ==
    /\ p + Len(w) - 1 <= Len(t)
    /\ \A n \in 1..Len(w) : t[p + n - 1] = w[n]

Contains(t, w) == \E p \in 1..Len(t) : StartsAt(t, p, w)

\* C7 as stated: for a text that contains the phrase, the identifier is the
\* sanitised form of the characters that follow an occurrence of the phrase
\* up to the next newline or pipe; a text that contains the example resolves
\* to ABC-123.
C7_AsStated ==
    pc = "resolved" =>
        /\ PhrasePositions(text) # {} =>
              \E p \in PhrasePositions(text) :
                  order_id = safe_name(FieldAfter(text, p))
        /\ Contains(text, ExampleText) => order_id = ExampleId

\* the positions where 'Order', whitespace, 'picking:' starts, in any letter case
Occurrences(t) == {p \in 1..Len(t) : PhraseAt(t, p) # 0}

\* C7 amended: when the first occurrence of 'Order', whitespace, 'picking:'
\* is followed, after any whitespace (newlines included), by a character
\* other than a pipe, the identifier is the sanitised form of the characters
\* from that character up to the next newline or pipe; a text that contains
\* the example, with no occurrence of the phrase before it, resolves to
\* ABC-123.
C7_FirstOccurrenceAfterWhitespace ==
    pc = "resolved" =>
        /\ Occurrences(text) # {} =>
              LET c == SkipSpace(text, PhraseAt(text, Min(Occurrences(text))))
              IN  (c <= Len(text) /\ text[c] # "|") =>
                      order_id = safe_name(SubSeq(text, c, SkipField(text, c) - 1))
        /\ \A q \in 1..Len(text) :
              (/\ StartsAt(text, q, ExampleText)
               /\ \A p \in Occurrences(text) : p >= q)
              => order_id = ExampleId

\* C7 witness: the phrase, a newline, then the example: the whitespace after
\* the first colon was skipped and the identifier comes from the second line
\* as a whole.
C7_Witness ==
    /\ pc = "resolved"
    /\ text = PhraseText \o <<"\n">> \o ExampleText
    /\ order_id = <<"O", "r", "d", "e", "r", "_", "p", "i", "c", "k", "i", "n", "g", "_", "A", "B", "C", "-", "1", "2", "3">>

\* C8: safe_name applied to a result of safe_name returns it unchanged.
C8_SanitisationIdempotent ==
    [][pc = "sanitized" => order_id' = order_id]_vars

\* C8 witness: a raw string that sanitises to nothing was given; the
\* placeholder came out of both applications.
C8_Witness ==
    /\ pc = "sanitized_again"
    /\ order_id = Placeholder

-----------------------------------------------------------------------------
(* items_to_dataframe on its own *)

\* the longest item list the aggregator is given
MaxItems == 3

SampleCodes ==
    { <<"V", "1", "2", "3", "4", "5">>,
      <<"V", "6", "7", "8", "9", "0">>,
      <<"V", "0", "0", "0", "0", "1">> }

SampleQuantities == {0, 5, 7}

InitAggregate ==
    /\ text = <<>>
    /\ fallback_name = <<>>
    /\ order_id = <<>>
    /\ lines = <<>>
    /\ i = 1
    /\ items \in SeqsUpTo(SampleCodes \X SampleQuantities, MaxItems)
    /\ df = <<>>
    /\ uploaded_files = <<>>
    /\ k = 1
    /\ outputs = <<>>
    /\ archive = <<>>
    /\ pc = "items_to_dataframe"

\* df = items_to_dataframe(items)
Aggregate ==
    /\ pc = "items_to_dataframe"
    /\ df' = items_to_dataframe(items)
    /\ pc' = "aggregated"
    /\ UNCHANGED <<text, fallback_name, order_id, lines, i, items, uploaded_files,
                   k, outputs, archive>>

NextAggregate == Aggregate

SpecAggregate == InitAggregate /\ [][NextAggregate]_vars

-----------------------------------------------------------------------------
(* The script: one run over a batch of uploaded files *)

\* the largest batch
MaxFiles == 3

\* two documents with the same order identifier and different items, a
\* document named by its file name, a document without text whose file name
\* gives the identifier of the first two, and a file that is no PDF
Documents ==
    { [name |-> <<"a", ".", "p", "d", "f">>,
       pages |-> <<<<"O", "r", "d", "e", "r", " ", "p", "i", "c", "k", "i", "n", "g", ":", " ", "A", "7">>,
                 <<"V", "1", "2", "3", "4", "5", " ", "=", " ", "2", " ", "p", "c", "s">>>>,
       readable |-> TRUE],
      [name |-> <<"b", ".", "p", "d", "f">>,
       pages |-> <<<<"o", "r", "d", "e", "r", " ", "p", "i", "c", "k", "i", "n", "g", ":", " ", "A", "7", "|", "x", "\n", "V", "1", "2", "3", "4", "5", "\n", "5", " ", "p", "c", "s">>>>,
       readable |-> TRUE],
      [name |-> <<"i", "n", "/", "B", " ", "1", ".", "p", "d", "f">>,
       pages |-> <<<<"V", "6", "7", "8", "9", "0", " ", "=", " ", "1", " ", "p", "c", "s">>,
                 <<"V", "1", "2", "3", "4", "5", " ", "=", " ", "4", " ", "p", "c", "s", " ", "V", "6", "7", "8", "9", "0">>>>,
       readable |-> TRUE],
      [name |-> <<"A", "7", ".", "p", "d", "f">>,
       pages |-> <<<<>>>>,
       readable |-> TRUE],
      [name |-> <<"b", "a", "d", ".", "p", "d", "f">>,
       pages |-> <<>>,
       readable |-> FALSE] }

InitBatch ==
    /\ text = <<>>
    /\ fallback_name = <<>>
    /\ order_id = <<>>
    /\ lines = <<>>
    /\ i = 1
    /\ items = <<>>
    /\ df = <<>>
    /\ uploaded_files \in SeqsUpTo(Documents, MaxFiles)
    /\ k = 1
    /\ outputs = <<>>
    /\ archive = <<>>
    /\ pc = "script"

\* if not uploaded_files: st.info(...)
NoFiles ==
    /\ pc = "script"
    /\ uploaded_files = <<>>
    /\ pc' = "idle"
    /\ UNCHANGED <<text, fallback_name, order_id, lines, i, items, df,
                   uploaded_files, k, outputs, archive>>

\* else: outputs = {}
StartBatch ==
    /\ pc = "script"
    /\ uploaded_files # <<>>
    /\ outputs' = <<>>
    /\ k' = 1
    /\ pc' = "loop"
    /\ UNCHANGED <<text, fallback_name, order_id, lines, i, items, df,
                   uploaded_files, archive>>

\* one iteration of "for file in uploaded_files", the file being a PDF
ProcessFile ==
    /\ pc = "loop"
    /\ k <= Len(uploaded_files)
    /\ uploaded_files[k].readable
    /\ text' = pdf_to_text(uploaded_files[k].pages)
    /\ order_id' = extract_order_id(text', uploaded_files[k].name)
    /\ items' = parse_items(text')
    /\ df' = items_to_dataframe(items')
    /\ outputs' = DictSet(outputs, xlsx_name(order_id'), df')
    /\ k' = k + 1
    /\ UNCHANGED <<fallback_name, lines, i, uploaded_files, archive, pc>>

\* pdfplumber.open raises: the run ends in the loop
ExtractionFails ==
    /\ pc = "loop"
    /\ k <= Len(uploaded_files)
    /\ ~uploaded_files[k].readable
    /\ pc' = "failed"
    /\ UNCHANGED <<text, fallback_name, order_id, lines, i, items, df,
                   uploaded_files, k, outputs, archive>>

\* if outputs: every entry of outputs written to the zip file, in dict order
WriteArchive ==
    /\ pc = "loop"
    /\ k > Len(uploaded_files)
    /\ outputs # <<>>
    /\ archive' = outputs
    /\ pc' = "done"
    /\ UNCHANGED <<text, fallback_name, order_id, lines, i, items, df,
                   uploaded_files, k, outputs>>

NextBatch == NoFiles \/ StartBatch \/ ProcessFile \/ ExtractionFails \/ WriteArchive

SpecBatch == InitBatch /\ [][NextBatch]_vars

Spec == SpecBatch

-----------------------------------------------------------------------------
(* Properties of items_to_dataframe *)

RECURSIVE Total(_, _, _)
\* the sum of the quantities given for a code at the first n places of a list
Total(its, code, n) ==
    IF n = 0 THEN 0
    ELSE Total(its, code, n - 1) + (IF its[n][1] = code THEN its[n][2] ELSE 0)

\* C4: the table has exactly one row per distinct code of the input, each
\* row's quantity is the sum of the quantities given for its code, the rows
\* are in strictly ascending order of code, and the empty list gives no rows.
C4_OneSummedRowPerCodeAscending ==
    pc = "aggregated" =>
        /\ {df[n][1] : n \in DOMAIN df} = {items[n][1] : n \in DOMAIN items}
        /\ Len(df) = Cardinality({items[n][1] : n \in DOMAIN items})
        /\ \A n \in DOMAIN df : df[n][2] = Total(items, df[n][1], Len(items))
        /\ \A n, m \in DOMAIN df : n < m => LessStr(df[n][1], df[m][1])
        /\ items = <<>> => df = <<>>

\* C4 witness: a code given twice, with 5 and 7, around a smaller code: two
\* rows, the smaller code first, the repeated code with 12.
C4_Witness ==
    /\ pc = "aggregated"
    /\ items = << <<<<"V", "6", "7", "8", "9", "0">>, 5>>, <<<<"V", "1", "2", "3", "4", "5">>, 7>>, <<<<"V", "6", "7", "8", "9", "0">>, 7>> >>
    /\ df = << <<<<"V", "1", "2", "3", "4", "5">>, 7>>, <<<<"V", "6", "7", "8", "9", "0">>, 12>> >>

-----------------------------------------------------------------------------
(* Properties of the batch *)

\* the name under which a document's spreadsheet is stored
NameOf(d) == xlsx_name(extract_order_id(pdf_to_text(d.pages), d.name))

\* the table a document's spreadsheet holds
SheetOf(d) == items_to_dataframe(parse_items(pdf_to_text(d.pages)))

\* C5 as stated: the mapping written to the archive has one entry per
\* document of the batch.
C5_OneEntryPerDocument ==
    pc = "done" => Len(archive) = Len(uploaded_files)

\* the documents taken so far whose spreadsheet is stored under a name
TakenAs(name) == {n \in 1..k - 1 : NameOf(uploaded_files[n]) = name}

\* every name taken so far has exactly one entry, and the entry holds the
\* spreadsheet of the last document taken under that name
LastWriteWins ==
    pc \in {"loop", "done"} =>
        /\ \A n \in 1..k - 1 :
              LET name == NameOf(uploaded_files[n])
                  E == {e \in DOMAIN outputs : outputs[e][1] = name}
              IN  /\ Cardinality(E) = 1
                  /\ \A e \in E :
                        outputs[e][2] = SheetOf(uploaded_files[Max(TakenAs(name))])
        /\ \A e \in DOMAIN outputs : TakenAs(outputs[e][1]) # {}

C10_ArchiveInUploadOrder ==
    pc = "done" =>
        \A p, q \in DOMAIN archive :
            p < q =>
                \E a, b \in DOMAIN uploaded_files :
                    /\ a < b
                    /\ archive[p] = <<NameOf(uploaded_files[a]), SheetOf(uploaded_files[a])>>
                    /\ archive[q] = <<NameOf(uploaded_files[b]), SheetOf(uploaded_files[b])>>

====
